---------------------------- MODULE Spec2Model ----------------------------
(* A model of utils::dynarray<T> (src/dynarray.hpp): a heap buffer held   *)
(* through std::unique_ptr<T[]> m_data together with a length m_size.      *)
(* A small program creates, assigns, accesses and destroys a few dynarray  *)
(* objects; the heap records every buffer that new T[n] handed out and how *)
(* often it was released by delete[].                                      *)
(*                                                                         *)
(* The iterator functions of the header call m_data.data(); unique_ptr has *)
(* no such member, the raw pointer is what is meant (get()), and that is   *)
(* what begin() is here.                                                   *)
EXTENDS Integers, Sequences, FiniteSets, TLC

\* ------------------------------------------------------------- bounds
NumInst == 2        \* dynarray variables the program has room for
MaxBufs == 3        \* arrays the program allocates in all
MaxLen  == 2        \* largest count / list length handed to a constructor
MaxVal  == 1        \* element values are 0..MaxVal

Insts  == 1..NumInst
Bufs   == 1..MaxBufs
Values == 0..MaxVal
NULL   == 0                     \* the empty unique_ptr

RECURSIVE SeqsUpTo(_)
SeqsUpTo(n) == IF n = 0 THEN {<<>>} ELSE SeqsUpTo(n - 1) \cup [1..n -> Values]
Lists == SeqsUpTo(MaxLen)       \* initializer lists

VARIABLES
    inst,      \* inst[i]: whether an object lives there, and its m_data, m_size
    heap,      \* heap[b]: allocated, cells (the T[n] array), releases
    last,      \* the call made last, with its arguments and its outcome
    mv,        \* the swap a move-assignment made last, for its undoing
    running    \* FALSE once the process was killed by a fault

vars == <<inst, heap, last, mv, running>>

\* ------------------------------------------------------------- state
Vacant == [st |-> "vacant", m_data |-> NULL, m_size |-> 0]

NoCall == [op |-> "none", dst |-> 0, src |-> 0, pos |-> 0, val |-> 0,
           list |-> <<>>, res |-> "ok"]

Call(op, d, s) == [NoCall EXCEPT !.op = op, !.dst = d, !.src = s]

NoMove == [n |-> 0, a |-> 0, b |-> 0, pa |-> Vacant, pb |-> Vacant,
           ea |-> <<>>, eb |-> <<>>]

Live(I, i) == I[i].st = "live"

\* size(): the member m_size, whatever m_data holds
size(I, i) == I[i].m_size

empty(I, i) == I[i].m_size = 0

\* ------------------------------------------------------------- pointers
\* A T* is a buffer and an offset into it; NULL + k has buffer NULL.
Ptr(b, k) == [buf |-> b, off |-> k]

Inc(p) == [p EXCEPT !.off = @ + 1]
Dec(p) == [p EXCEPT !.off = @ - 1]

\* whether n elements starting at p may be read or written
Accessible(H, p, n) ==
    \/ n = 0
    \/ /\ p.buf # NULL
       /\ H[p.buf].allocated
       /\ p.off >= 0
       /\ p.off + n <= Len(H[p.buf].cells)

Deref(H, p) == H[p.buf].cells[p.off + 1]

Store(H, p, v) == [H EXCEPT ![p.buf].cells[p.off + 1] = v]

\* ------------------------------------------------------------- iterators
begin(I, i) == Ptr(I[i].m_data, 0)

end(I, i) == Ptr(I[i].m_data, size(I, i))

\* a slip: the reverse range started at the front boundary
rbegin_from_begin(I, i) == [base |-> begin(I, i)]

\* std::reverse_iterator: holds a base, dereferences *(base - 1), ++ is --base
rbegin(I, i) == [base |-> end(I, i)]

rend(I, i) == [base |-> begin(I, i)]

RDeref(H, r) == Deref(H, Dec(r.base))

RInc(r) == [base |-> Dec(r.base)]

\* for (it = first; it != lst; ++it) out.push_back(*it): the elements seen.
\* The walk is cut off after k steps, and ends in BadRead where *it leaves
\* the array.
BadRead == -1

RECURSIVE Traverse(_, _, _, _)
Traverse(H, first, lst, k) ==
    IF first = lst \/ k = 0 THEN <<>>
    ELSE IF ~Accessible(H, first, 1) THEN <<BadRead>>
    ELSE <<Deref(H, first)>> \o Traverse(H, Inc(first), lst, k - 1)

RECURSIVE RTraverse(_, _, _, _)
RTraverse(H, first, lst, k) ==
    IF first = lst \/ k = 0 THEN <<>>
    ELSE IF ~Accessible(H, Dec(first.base), 1) THEN <<BadRead>>
    ELSE <<RDeref(H, first)>> \o RTraverse(H, RInc(first), lst, k - 1)

\* ------------------------------------------------------------- algorithms
RECURSIVE std_fill(_, _, _, _)
std_fill(H, first, lst, v) ==
    IF first = lst THEN H
    ELSE std_fill(Store(H, first, v), Inc(first), lst, v)

RECURSIVE std_copy(_, _, _, _)
std_copy(H, first, lst, d_first) ==
    IF first = lst THEN H
    ELSE std_copy(Store(H, d_first, Deref(H, first)), Inc(first), lst, Inc(d_first))

\* std::copy out of an initializer_list, whose elements are not on the heap
RECURSIVE std_copy_list(_, _, _)
std_copy_list(H, list, d_first) ==
    IF list = <<>> THEN H
    ELSE std_copy_list(Store(H, d_first, Head(list)), Tail(list), Inc(d_first))

\* ------------------------------------------------------------- heap
NoBuf == [allocated |-> FALSE, cells |-> <<>>, releases |-> 0]

\* the arrays never handed out yet, and the one the next new T[n] returns
Unused(H) == {b \in Bufs : ~H[b].allocated /\ H[b].releases = 0}

Fresh(H) == CHOOSE b \in Unused(H) : \A c \in Unused(H) : b <= c

\* new T[n]: n elements of indeterminate value, here the values of junk
new_array(H, b, junk) == [H EXCEPT ![b] = [allocated |-> TRUE, cells |-> junk, releases |-> 0]]

Junk(n) == [1..n -> Values]

\* ~unique_ptr<T[]>: delete[] unless empty
release(H, b) ==
    IF b = NULL THEN H
    ELSE [H EXCEPT ![b] = [allocated |-> FALSE, cells |-> <<>>, releases |-> @.releases + 1]]

Init ==
    /\ inst = [i \in Insts |-> Vacant]
    /\ heap = [b \in Bufs |-> NoBuf]
    /\ last = NoCall
    /\ mv = NoMove
    /\ running = TRUE


\* ------------------------------------------------------------- outcomes
\* the elements object i holds: the array its m_data points to, if any
Elems(I, H, i) == IF I[i].m_data = NULL THEN <<>> ELSE H[I[i].m_data].cells

\* A call that returned (or threw res) and left the world as I, H.
Return(c, I, H) ==
    /\ inst' = I
    /\ heap' = H
    /\ last' = c
    /\ mv' = NoMove
    /\ running' = TRUE

\* An access through a null pointer kills the process (SIGSEGV).
Fault(c) ==
    /\ last' = [c EXCEPT !.res = "fault"]
    /\ running' = FALSE
    /\ mv' = NoMove
    /\ UNCHANGED <<inst, heap>>

\* ------------------------------------------------------------- constructors
Born(I, d, b, n) == [I EXCEPT ![d] = [st |-> "live", m_data |-> b, m_size |-> n]]

\* (1) dynarray(size_type count)
dynarray_count(d) ==
    /\ running /\ ~Live(inst, d) /\ Unused(heap) # {}
    /\ \E count \in 0..MaxLen : \E junk \in Junk(count) :
         LET b == Fresh(heap) IN
         Return(Call("dynarray_count", d, 0),
                Born(inst, d, b, count), new_array(heap, b, junk))

\* (2) dynarray(size_type count, T const& value)
dynarray_value(d) ==
    /\ running /\ ~Live(inst, d) /\ Unused(heap) # {}
    /\ \E count \in 0..MaxLen, value \in Values : \E junk \in Junk(count) :
         LET b == Fresh(heap)
             I == Born(inst, d, b, count)
             H == new_array(heap, b, junk)
         IN  Return([Call("dynarray_value", d, 0) EXCEPT !.val = value],
                    I, std_fill(H, begin(I, d), end(I, d), value))

\* (3) dynarray(dynarray const& other)
dynarray_copy(d, other) ==
    /\ running /\ ~Live(inst, d) /\ Live(inst, other) /\ Unused(heap) # {}
    /\ \E junk \in Junk(size(inst, other)) :
         LET b == Fresh(heap)
             I == Born(inst, d, b, size(inst, other))
             H == new_array(heap, b, junk)
             c == Call("dynarray_copy", d, other)
         IN  IF Accessible(H, begin(I, other), size(I, other))
             THEN Return(c, I, std_copy(H, begin(I, other), end(I, other), begin(I, d)))
             ELSE \* reads through other's null m_data
                  \/ Fault(c)
                  \/ Return(c, I, H)

\* a slip: the pointer copied, other.m_data not given up
move_construct_alias(I, d, other) ==
    [I EXCEPT ![d] = [st |-> "live", m_data |-> I[other].m_data,
                      m_size |-> size(I, other)]]

\* (4) dynarray(dynarray && other): m_data{std::move(other.m_data)},
\* m_size{other.size()}; other keeps its m_size
move_construct(I, d, other) ==
    [I EXCEPT ![d] = [st |-> "live", m_data |-> I[other].m_data,
                      m_size |-> size(I, other)],
              ![other].m_data = NULL]

dynarray_move(d, other) ==
    /\ running /\ ~Live(inst, d) /\ Live(inst, other)
    /\ Return(Call("dynarray_move", d, other), move_construct(inst, d, other), heap)

\* (5) dynarray(std::initializer_list<T> list)
dynarray_list(d) ==
    /\ running /\ ~Live(inst, d) /\ Unused(heap) # {}
    /\ \E list \in Lists : \E junk \in Junk(Len(list)) :
         LET b == Fresh(heap)
             I == Born(inst, d, b, Len(list))
             H == new_array(heap, b, junk)
         IN  Return([Call("dynarray_list", d, 0) EXCEPT !.list = list],
                    I, std_copy_list(H, list, begin(I, d)))

\* ~dynarray(): the unique_ptr member releases what it holds
destroy(d) ==
    /\ running /\ Live(inst, d)
    /\ Return(Call("destroy", d, 0),
              [inst EXCEPT ![d] = Vacant],
              release(heap, inst[d].m_data))

\* ------------------------------------------------------------- assignment
Min(a, b) == IF a < b THEN a ELSE b

\* a slip: the elements that fit are copied before the lengths are compared
copy_assign_eager(I, H, d, other) ==
    LET n == Min(size(I, d), size(I, other))
        from == begin(I, other)
    IN  [heap |-> IF Accessible(H, from, n) /\ Accessible(H, begin(I, d), n)
                  THEN std_copy(H, from, Ptr(from.buf, n), begin(I, d))
                  ELSE H,
         res |-> IF size(I, d) # size(I, other) THEN "InvalidArgument" ELSE "ok"]

\* operator=(dynarray const& other): the heap it leaves and what it throws
copy_assign(I, H, d, other) ==
    IF size(I, d) # size(I, other)
    THEN [heap |-> H, res |-> "InvalidArgument"]
    ELSE [heap |-> std_copy(H, begin(I, other), end(I, other), begin(I, d)),
          res |-> "ok"]

assign_copy(d, other) ==
    /\ running /\ Live(inst, d) /\ Live(inst, other)
    /\ LET c == Call("assign_copy", d, other) IN
       IF /\ size(inst, d) = size(inst, other)
          /\ ~(/\ Accessible(heap, begin(inst, other), size(inst, other))
               /\ Accessible(heap, begin(inst, d), size(inst, d)))
       THEN \* copies from or into a null m_data
            \/ Fault(c)
            \/ Return(c, inst, heap)
       ELSE LET r == copy_assign(inst, heap, d, other) IN
            Return([c EXCEPT !.res = r.res], inst, r.heap)

\* a slip: only the pointers swapped, the lengths left behind
move_assign_data_only(I, d, other) ==
    [I EXCEPT ![d].m_data = I[other].m_data, ![other].m_data = I[d].m_data]

\* a slip: the source taken over as the move constructor does, nothing given back
move_assign_take(I, d, other) ==
    [I EXCEPT ![d].m_data = I[other].m_data, ![d].m_size = I[other].m_size,
              ![other].m_data = NULL]

\* operator=(dynarray && other): std::swap of m_data and of m_size
move_assign(I, d, other) ==
    [I EXCEPT ![d].m_data = I[other].m_data, ![d].m_size = I[other].m_size,
              ![other].m_data = I[d].m_data, ![other].m_size = I[d].m_size]

assign_move(d, other) ==
    /\ running /\ Live(inst, d) /\ Live(inst, other)
    /\ inst' = move_assign(inst, d, other)
    /\ last' = Call("assign_move", d, other)
    /\ mv' = IF mv.n = 1 /\ mv.a = other /\ mv.b = d
             THEN [mv EXCEPT !.n = 2]
             ELSE [n |-> 1, a |-> d, b |-> other,
                   pa |-> inst[d], pb |-> inst[other],
                   ea |-> Elems(inst, heap, d), eb |-> Elems(inst, heap, other)]
    /\ UNCHANGED <<heap, running>>

\* operator=(std::initializer_list<T> list)
list_assign(I, H, d, list) ==
    IF size(I, d) # Len(list)
    THEN [heap |-> H, res |-> "InvalidArgument"]
    ELSE [heap |-> std_copy_list(H, list, begin(I, d)), res |-> "ok"]

assign_list(d) ==
    /\ running /\ Live(inst, d)
    /\ \E list \in Lists :
       LET c == [Call("assign_list", d, 0) EXCEPT !.list = list] IN
       IF size(inst, d) = Len(list) /\ ~Accessible(heap, begin(inst, d), size(inst, d))
       THEN \* copies into a null m_data
            \/ Fault(c)
            \/ Return(c, inst, heap)
       ELSE LET r == list_assign(inst, heap, d, list) IN
            Return([c EXCEPT !.res = r.res], inst, r.heap)

\* ------------------------------------------------------------- access
\* at(pos): what it throws, or the element m_data[pos] refers to
at(I, H, d, pos) ==
    IF pos >= size(I, d)
    THEN [res |-> "OutOfRange", val |-> 0]
    ELSE [res |-> "ok", val |-> Deref(H, Ptr(I[d].m_data, pos))]

\* x = a.at(pos)
at_read(d) ==
    /\ running /\ Live(inst, d)
    /\ \E pos \in 0..MaxLen + 1 :
       LET c == [Call("at", d, 0) EXCEPT !.pos = pos] IN
       IF pos < size(inst, d) /\ ~Accessible(heap, Ptr(inst[d].m_data, pos), 1)
       THEN \* m_data[pos] on a null m_data
            \/ Fault(c)
            \/ \E v \in Values : Return([c EXCEPT !.val = v], inst, heap)
       ELSE LET r == at(inst, heap, d, pos) IN
            Return([c EXCEPT !.res = r.res, !.val = r.val], inst, heap)

\* a.at(pos) = value
at_write(d) ==
    /\ running /\ Live(inst, d)
    /\ \E pos \in 0..MaxLen + 1, value \in Values :
       LET c == [Call("at_write", d, 0) EXCEPT !.pos = pos] IN
       IF pos < size(inst, d) /\ ~Accessible(heap, Ptr(inst[d].m_data, pos), 1)
       THEN \/ Fault(c)
            \/ Return(c, inst, heap)
       ELSE LET r == at(inst, heap, d, pos) IN
            IF r.res = "ok"
            THEN Return(c, inst, Store(heap, Ptr(inst[d].m_data, pos), value))
            ELSE Return([c EXCEPT !.res = r.res], inst, heap)

\* a[pos] = value; the caller keeps pos < size()
subscript_write(d) ==
    /\ running /\ Live(inst, d)
    /\ \E pos \in 0..MaxLen, value \in Values :
       /\ pos < size(inst, d)
       /\ LET c == [Call("subscript_write", d, 0) EXCEPT !.pos = pos] IN
          IF ~Accessible(heap, Ptr(inst[d].m_data, pos), 1)
          THEN \/ Fault(c)
               \/ Return(c, inst, heap)
          ELSE Return(c, inst, Store(heap, Ptr(inst[d].m_data, pos), value))

\* fill(value)
fill(d) ==
    /\ running /\ Live(inst, d)
    /\ \E value \in Values :
       LET c == [Call("fill", d, 0) EXCEPT !.val = value] IN
       IF ~Accessible(heap, begin(inst, d), size(inst, d))
       THEN \/ Fault(c)
            \/ Return(c, inst, heap)
       ELSE Return(c, inst, std_fill(heap, begin(inst, d), end(inst, d), value))

\* ------------------------------------------------------------- program
Next ==
    \/ \E d \in Insts : dynarray_count(d)
    \/ \E d \in Insts : dynarray_value(d)
    \/ \E d, o \in Insts : dynarray_copy(d, o)
    \/ \E d, o \in Insts : dynarray_move(d, o)
    \/ \E d \in Insts : dynarray_list(d)
    \/ \E d, o \in Insts : assign_copy(d, o)
    \/ \E d, o \in Insts : assign_move(d, o)
    \/ \E d \in Insts : assign_list(d)
    \/ \E d \in Insts : at_read(d)
    \/ \E d \in Insts : at_write(d)
    \/ \E d \in Insts : subscript_write(d)
    \/ \E d \in Insts : fill(d)
    \/ \E d \in Insts : destroy(d)

Spec == Init /\ [][Next]_vars

\* ------------------------------------------------------------- claims
RECURSIVE Reverse(_)
Reverse(q) == IF q = <<>> THEN <<>> ELSE Reverse(Tail(q)) \o <<Head(q)>>

\* object i has an array with an element at each of the offsets 0..size()-1
HasElems(I, H, i) == Accessible(H, begin(I, i), size(I, i))

\* a and b hold equal elements at every offset below n
SameElems(I, H, a, J, G, b, n) ==
    /\ Accessible(H, begin(I, a), n)
    /\ Accessible(G, begin(J, b), n)
    /\ \A k \in 0..n - 1 :
         Deref(H, Ptr(I[a].m_data, k)) = Deref(G, Ptr(J[b].m_data, k))

\* C1: the object move-constructed from s has the size and the elements s
\* had, in order, and s reports size() == 0 afterwards.
C1_MoveConstruct ==
    [][last'.op = "dynarray_move" =>
         LET d == last'.dst
             s == last'.src
         IN  /\ size(inst', d) = size(inst, s)
             /\ Elems(inst', heap', d) = Elems(inst, heap, s)
             /\ size(inst', s) = 0]_vars

\* C2: size() of an object is the same after every operation on it as it
\* was right after construction: no step changes the size of an object that
\* lives before and after it.
C2_SizeNeverChanges ==
    [][\A i \in Insts :
         Live(inst, i) /\ Live(inst', i) => size(inst', i) = size(inst, i)]_vars

\* C3: copy-assignment from an object or from a list of another length than
\* the target's throws InvalidArgument and changes nothing: not the target's
\* size or elements, not the source.
C3_MismatchThrowsUnchanged ==
    [][(\/ /\ last'.op = "assign_copy"
           /\ size(inst, last'.dst) # size(inst, last'.src)
        \/ /\ last'.op = "assign_list"
           /\ size(inst, last'.dst) # Len(last'.list))
       => /\ last'.res = "InvalidArgument"
          /\ inst' = inst
          /\ heap' = heap]_vars

C3_Witness ==
    /\ last.op = "assign_copy"
    /\ last.res = "InvalidArgument"
    /\ size(inst, last.dst) = 1
    /\ size(inst, last.src) = 2
    /\ HasElems(inst, heap, last.dst)
    /\ HasElems(inst, heap, last.src)

\* C4: at(pos) returns the element stored at offset pos when pos < size()
\* and throws OutOfRange when pos >= size(); either way it changes no
\* element and no size.
C4_CheckedAccess ==
    [][last'.op = "at" =>
         LET d == last'.dst
             pos == last'.pos
         IN  /\ IF pos < size(inst, d)
                THEN /\ last'.res = "ok"
                     /\ Accessible(heap, Ptr(inst[d].m_data, pos), 1)
                     /\ last'.val = Deref(heap, Ptr(inst[d].m_data, pos))
                ELSE last'.res = "OutOfRange"
             /\ inst' = inst
             /\ heap' = heap]_vars

\* C5: every object whose size() is n > 0 owns an array of exactly n
\* elements, at the offsets 0..n-1.
C5_SizedObjectOwnsArray ==
    \A i \in Insts :
        Live(inst, i) /\ size(inst, i) > 0 =>
            /\ inst[i].m_data # NULL
            /\ heap[inst[i].m_data].allocated
            /\ Len(heap[inst[i].m_data].cells) = size(inst, i)

\* C6: every array is held by at most one living object, is released at
\* most once, is held by a living object for as long as it is not released
\* (so all are released once no object lives), and no living object holds a
\* released array.
C6_ExclusiveOwnership ==
    \A b \in Bufs :
        /\ Cardinality({i \in Insts : Live(inst, i) /\ inst[i].m_data = b}) <= 1
        /\ heap[b].releases <= 1
        /\ heap[b].allocated => \E i \in Insts : Live(inst, i) /\ inst[i].m_data = b
        /\ \A i \in Insts : Live(inst, i) /\ inst[i].m_data = b => heap[b].allocated

C6_Witness ==
    /\ last.op = "destroy"
    /\ \A i \in Insts : ~Live(inst, i)
    /\ \A b \in Bufs : heap[b].releases = 1

C8_CopyIndependent ==
    [][/\ last'.op = "dynarray_copy" =>
            LET d == last'.dst
                s == last'.src
            IN  /\ last'.res = "ok"
                /\ size(inst', d) = size(inst, s)
                /\ SameElems(inst', heap', d, inst, heap, s, size(inst, s))
                /\ inst'[s] = inst[s]
                /\ Elems(inst', heap', s) = Elems(inst, heap, s)
       /\ last'.op \in {"at_write", "subscript_write", "fill",
                        "assign_copy", "assign_list"} =>
            \A j \in Insts \ {last'.dst} :
                /\ inst'[j] = inst[j]
                /\ Elems(inst', heap', j) = Elems(inst, heap, j)]_vars

\* C9: an object built from a list of length n is walked from begin() to
\* end() in exactly size() = n steps, giving the list's elements in order;
\* from rbegin() to rend() in as many steps, giving them in the opposite
\* order; and begin() == end() when n = 0.
C9_Iteration ==
    last.op = "dynarray_list" =>
        LET d == last.dst
            n == Len(last.list)
            fwd == Traverse(heap, begin(inst, d), end(inst, d), n + 1)
            bwd == RTraverse(heap, rbegin(inst, d), rend(inst, d), n + 1)
        IN  /\ size(inst, d) = n
            /\ fwd = last.list
            /\ bwd = Reverse(last.list)
            /\ n = 0 => begin(inst, d) = end(inst, d)

C9_Witness ==
    /\ last.op = "dynarray_list"
    /\ last.list = <<0, 1>>

\* C10: a = move(b) followed by b = move(a) leaves a and b with the arrays,
\* sizes and elements they had before, and a = move(a) leaves a as it was.
C10_MoveAssignInvolution ==
    /\ mv.n = 2 =>
         /\ inst[mv.a] = mv.pa /\ Elems(inst, heap, mv.a) = mv.ea
         /\ inst[mv.b] = mv.pb /\ Elems(inst, heap, mv.b) = mv.eb
    /\ mv.n >= 1 /\ mv.a = mv.b =>
         /\ inst[mv.a] = mv.pa /\ Elems(inst, heap, mv.a) = mv.ea

C10_Witness ==
    /\ mv.n = 2
    /\ mv.a # mv.b
    /\ mv.pa.m_data # mv.pb.m_data
    /\ mv.pa.m_size # mv.pb.m_size
    /\ mv.ea # mv.eb

=============================================================================
